---- MODULE Spec2Model ----
(***************************************************************************)
(* Model of the nvidia-smi repair engine of cuda-setup                     *)
(* (cuda_cli/core/nvidia_smi.py) together with the command runner it is    *)
(* built on (cuda_cli/utils/subprocess_utils.py).                          *)
(*                                                                         *)
(* The file system is reduced to the objects the engine looks at:          *)
(*   L  = WSL_NVIDIA_SMI_PATH      /usr/lib/wsl/lib/nvidia-smi             *)
(*   H  = WINDOWS_NVIDIA_SMI_PATH  /mnt/c/Windows/System32/nvidia-smi.exe  *)
(*   O  = some other nvidia-smi binary, reachable through PATH or as the   *)
(*        target of a symlink somebody else made                           *)
(* One invocation of fix_nvidia_smi is a sequence of steps (pc); between   *)
(* invocations external actors may change the file system.                 *)
(***************************************************************************)
EXTENDS Integers, Sequences, FiniteSets, TLC

\* ---------------------------------------------------------------- bounds
\* datetime.now() at one-second resolution, as a bounded counter
MaxClock == 1

\* ------------------------------------------------------------- constants
WSL_NVIDIA_SMI_PATH == "L"
WINDOWS_NVIDIA_SMI_PATH == "H"
OTHER_NVIDIA_SMI == "O"

VARIABLES
    lnk,            \* the object at L: [kind, works, target]
    parentExists,   \* L's parent directory exists
    hExists,        \* H exists
    hWorks,         \* executing H exits 0 within the timeout
    oWorks,         \* executing O exits 0 within the timeout
    pathEnv,        \* the directories of PATH that hold an nvidia-smi, in order
    backups,        \* the backup files L.old.<timestamp> in the parent
    backupEscapes,  \* the backup path resolves outside the parent directory
    clock,          \* datetime.now()
    pc,             \* position inside fix_nvidia_smi, "idle" between calls
    message_parts,  \* local of fix_nvidia_smi
    ops,            \* privileged commands run by the current/last invocation
    probes,         \* liveness probes run by the current/last invocation
    start,          \* the file system as the current/last invocation found it
    result,         \* outcome of the last finished invocation; forgotten,
                    \* with ops, probes and start, once the outside changes
    prev            \* outcome of the invocation before it (forgotten once the
                    \* outside changes), and the L it found

\* the state of the other components (cuda_cli/core/driver.py,
\* cuda_cli/core/system.py, cuda_cli/commands); the repair engine never
\* touches it
VARIABLES
    ver,            \* compare_versions: its two arguments and what it gave
    wsl,            \* is_wsl2: the signals it looks at and what it gave
    ev,             \* check_driver_compatibility: its inputs and what it gave
    run,            \* a run of one of the commands check, fix, info
    race            \* two invocations of fix_nvidia_smi running at once

restVars == <<ver, wsl, ev, run, race>>

vars == <<lnk, parentExists, hExists, hWorks, oWorks, pathEnv, backups,
          backupEscapes, clock, pc, message_parts, ops, probes, start,
          result, prev, ver, wsl, ev, run, race>>

fsVars == <<lnk, parentExists, hExists, hWorks, oWorks, pathEnv, backups,
            backupEscapes, clock>>

\* ----------------------------------------------------- file system objects
Missing == [kind |-> "missing", works |-> FALSE, target |-> "none"]
RegularFile(w) == [kind |-> "file", works |-> w, target |-> "none"]
Symlink(t) == [kind |-> "symlink", works |-> FALSE, target |-> t]

LinkTargets == {WINDOWS_NVIDIA_SMI_PATH, OTHER_NVIDIA_SMI, "gone"}

LObjects == {Missing} \cup {RegularFile(w) : w \in BOOLEAN}
                      \cup {Symlink(t) : t \in LinkTargets}

PathEnvs == {<<>>, <<"L">>, <<"O">>, <<"L", "O">>}

\* the answer remembered from the invocation before instead of asked again
IsNvidiaSmiSymlinkRemembered(l) == prev.lnk.kind = "symlink"

\* Path.is_symlink() of L
IsNvidiaSmiSymlink(l) == l.kind = "symlink"

\* the file a symlink target names exists
TargetExists(t, he) ==
    CASE t = WINDOWS_NVIDIA_SMI_PATH -> he
      [] t = OTHER_NVIDIA_SMI -> TRUE
      [] OTHER -> FALSE

\* Path.exists() of L: follows symlinks, so a dangling symlink does not exist
PathExists(l, he) ==
    CASE l.kind = "missing" -> FALSE
      [] l.kind = "file" -> TRUE
      [] OTHER -> TargetExists(l.target, he)

\* Path.resolve() of L when it is a symlink
GetNvidiaSmiTarget(l) == IF IsNvidiaSmiSymlink(l) THEN l.target ELSE "None"

\* executing the object at L exits 0 within the timeout
ExecL(l, he, hw, ow) ==
    CASE l.kind = "file" -> l.works
      [] l.kind = "symlink" /\ l.target = WINDOWS_NVIDIA_SMI_PATH -> he /\ hw
      [] l.kind = "symlink" /\ l.target = OTHER_NVIDIA_SMI -> ow
      [] OTHER -> FALSE

\* which binary the bare command name "nvidia-smi" runs: the first PATH
\* directory holding an existing nvidia-smi
RECURSIVE Which(_, _, _)
Which(path, l, he) ==
    IF path = <<>> THEN "none"
    ELSE IF Head(path) = "O" THEN "O"
    ELSE IF PathExists(l, he) THEN "L"
    ELSE Which(Tail(path), l, he)

\* ------------------------------------------------------------ run_command
\* what subprocess.run does with a command: exits 0, exits non-zero, exceeds
\* the timeout, cannot find the executable, or the OS refuses to spawn it
Outcomes == {"ok", "nonzero", "timeout", "notfound", "oserror"}

\* run_command(command, timeout, check): the exception raised, if any, with
\* its text, else the return code and stderr
RunCommand(out, check) ==
    CASE out = "ok" ->
            [exc |-> "none", returncode |-> 0, text |-> ""]
      [] out = "nonzero" /\ check ->
            [exc |-> "SubprocessError", returncode |-> 1,
             text |-> "Command failed with exit code"]
      [] out = "nonzero" /\ ~check ->
            [exc |-> "none", returncode |-> 1, text |-> "stderr"]
      [] out = "timeout" ->
            [exc |-> "SubprocessError", returncode |-> -1,
             text |-> "Command timed out"]
      [] out = "notfound" ->
            [exc |-> "SubprocessError", returncode |-> -1,
             text |-> "Command not found"]
      [] OTHER ->
            [exc |-> "OSError", returncode |-> -1, text |-> "OSError"]

\* ---------------------------------------------------------- test_nvidia_smi
\* the binary test_nvidia_smi(arg) executes: str(arg) when a path is given,
\* else the bare name "nvidia-smi", which the OS looks up in PATH
ProbeCommand(arg, path, l, he) ==
    IF arg # "None" THEN arg ELSE Which(path, l, he)

\* what executing that binary does (a timeout counts as not working)
ProbeOutcome(bin, l, he, hw, ow) ==
    CASE bin = "L" -> IF l.kind = "missing" \/ ~PathExists(l, he) THEN "notfound"
                      ELSE IF ExecL(l, he, hw, ow) THEN "ok" ELSE "nonzero"
      [] bin = "O" -> IF ow THEN "ok" ELSE "nonzero"
      [] OTHER -> "notfound"

\* test_nvidia_smi: returncode == 0, and False on every exception
TestNvidiaSmi(arg, path, l, he, hw, ow) ==
    LET res == RunCommand(ProbeOutcome(ProbeCommand(arg, path, l, he),
                                       l, he, hw, ow), FALSE)
    IN  res.exc = "none" /\ res.returncode = 0

\* the record kept of a probe: the place in fix_nvidia_smi that ran it, its
\* argument, the binary it ran, its verdict, and what executing L itself
\* gives at that moment
ProbeRecord(at, arg) ==
    [at |-> at,
     arg |-> arg,
     ran |-> ProbeCommand(arg, pathEnv, lnk, hExists),
     ok  |-> TestNvidiaSmi(arg, pathEnv, lnk, hExists, hWorks, oWorks),
     lok |-> ExecL(lnk, hExists, hWorks, oWorks)]

\* ------------------------------------------------------------------ results
NoResult == [kind |-> "none", success |-> FALSE, msg |-> <<>>,
             exc |-> "", text |-> "", detail |-> ""]
Returned(ok, parts) == [kind |-> "returned", success |-> ok, msg |-> parts,
                        exc |-> "", text |-> "", detail |-> ""]
Raised(e, t, d) == [kind |-> "raised", success |-> FALSE, msg |-> <<>>,
                    exc |-> e, text |-> t, detail |-> d]

\* the exception a failed run_command turns into at a call site that wraps
\* SubprocessError into NvidiaSmiError(text: detail)
Wrap(res, t) ==
    IF res.exc = "SubprocessError" THEN Raised("NvidiaSmiError", t, res.text)
    ELSE IF res.exc = "none" THEN Raised("NvidiaSmiError", t, res.text)
    ELSE Raised(res.exc, res.text, "")

NoPrev == [res |-> NoResult, lnk |-> Missing]

NoStart == [lnk |-> Missing, parentExists |-> FALSE, hExists |-> FALSE,
            backups |-> {}, valid |-> FALSE]

Op(cmd, src, dst, out) ==
    [cmd |-> cmd, src |-> src, dst |-> dst, outcome |-> out,
     before |-> lnk.kind]

\* the commands of the engine
BackupPath(t) == WSL_NVIDIA_SMI_PATH \o ".old." \o ToString(t)
RmCommand == Op("rm", WSL_NVIDIA_SMI_PATH, "", "")
\* the other binary moved away instead of L
MvCommandOther(t) == Op("mv", OTHER_NVIDIA_SMI, BackupPath(t), "")
MvCommand(t) == Op("mv", WSL_NVIDIA_SMI_PATH, BackupPath(t), "")
MkdirCommand == Op("mkdir", "parent", "", "")
\* the link made to the other binary instead of H
LnCommandOther == Op("ln", OTHER_NVIDIA_SMI, WSL_NVIDIA_SMI_PATH, "")

LnCommand == Op("ln", WINDOWS_NVIDIA_SMI_PATH, WSL_NVIDIA_SMI_PATH, "")

Ran(cmd, out) == [cmd EXCEPT !.outcome = out]

\* -------------------------------------------------- decisions of the engine
\* the host check left out
HostCheckSkipped(he) == "fix_is_symlink"

\* fix_nvidia_smi, the host check
HostCheck(he) == IF he THEN "fix_is_symlink" ELSE "raise"

\* the early return for a working symlink left out
AfterSymlinkProbeNoReturn(ok) == "fix_rm"

\* a symlink that fails the probe backed up like a regular file
AfterSymlinkProbeBackup(ok) == IF ok THEN "return" ELSE "backup_mv"

\* a symlink that fails the probe probed again
AfterSymlinkProbeAgain(ok) == IF ok THEN "return" ELSE "fix_probe_symlink"

\* fix_nvidia_smi, after the probe of a symlink
AfterSymlinkProbe(ok) == IF ok THEN "return" ELSE "fix_rm"

\* a broken regular file left in place
IsRegularBranchNever(l, he) == FALSE

\* fix_nvidia_smi, "L exists and is not a symlink"
IsRegularBranch(l, he) == PathExists(l, he) /\ ~IsNvidiaSmiSymlink(l)

\* a broken regular file overwritten without a backup
AfterRegularProbeNoBackup(ok) == IF ok THEN "return" ELSE "create_check_host"

\* fix_nvidia_smi, after the probe of a regular file
AfterRegularProbe(ok) == IF ok THEN "return" ELSE "backup_check"

\* backup_nvidia_smi, the guard that returns None
BackupGuard(l, he) == ~PathExists(l, he) \/ IsNvidiaSmiSymlink(l)

\* the return code of a privileged command not looked at
AfterCommandIgnoreCode(res, next) ==
    IF res.exc = "none" THEN next ELSE "raise"

\* the step after a privileged command run with check=False
AfterCommand(res, next) ==
    IF res.exc = "none" /\ res.returncode = 0 THEN next ELSE "raise"

\* the final probe's verdict not looked at
VerifyResultAlwaysOk(ok, parts) ==
    Returned(TRUE, Append(parts, "nvidia-smi is now working"))

\* fix_nvidia_smi, the verdict after the final probe
VerifyResult(ok, parts) ==
    IF ok THEN Returned(TRUE, Append(parts, "nvidia-smi is now working"))
    ELSE Returned(FALSE, <<"Symlink created but nvidia-smi still not working">>)

\* ---------------------------------------------------------------------- Init
\* a component that is not running
Off == [at |-> "off"]

RestOff ==
    ver = Off /\ wsl = Off /\ ev = Off /\ run = Off /\ race = Off

\* the file system and the engine between invocations
FsInit ==
    /\ lnk \in LObjects
    /\ parentExists \in BOOLEAN
    /\ ~parentExists => lnk = Missing
    /\ hExists \in BOOLEAN
    /\ hWorks \in BOOLEAN
    /\ ~hExists => ~hWorks
    /\ oWorks \in BOOLEAN
    /\ pathEnv \in PathEnvs
    /\ backups = {}
    /\ backupEscapes = FALSE
    /\ clock = 0
    /\ pc = "idle"
    /\ message_parts = <<>>
    /\ ops = <<>>
    /\ probes = <<>>
    /\ start = NoStart
    /\ result = NoResult
    /\ prev = NoPrev

Init == FsInit /\ RestOff

\* ------------------------------------------------------------ fix_nvidia_smi
Finish(r) ==
    /\ pc' = "idle"
    /\ result' = r
    /\ message_parts' = <<>>

Goto(p) ==
    /\ pc' = p
    /\ UNCHANGED <<result, message_parts>>

\* a caller invokes fix_nvidia_smi
Call ==
    /\ pc = "idle"
    /\ pc' = "fix_check_host"
    /\ prev' = [res |-> result, lnk |-> start.lnk]
    /\ result' = NoResult
    /\ ops' = <<>>
    /\ probes' = <<>>
    /\ message_parts' = <<>>
    /\ start' = [lnk |-> lnk, parentExists |-> parentExists,
                 hExists |-> hExists, backups |-> backups, valid |-> TRUE]
    /\ UNCHANGED fsVars
    /\ UNCHANGED restVars

\* if not WINDOWS_NVIDIA_SMI_PATH.exists(): raise
FixCheckHost ==
    /\ pc = "fix_check_host"
    /\ IF HostCheck(hExists) = "raise"
       THEN Finish(Raised("NvidiaSmiError", "Windows nvidia-smi not found", ""))
       ELSE Goto(HostCheck(hExists))
    /\ UNCHANGED <<fsVars, ops, probes, start, prev>>
    /\ UNCHANGED restVars

\* if is_nvidia_smi_symlink():
FixIsSymlink ==
    /\ pc = "fix_is_symlink"
    /\ Goto(IF IsNvidiaSmiSymlink(lnk) THEN "fix_probe_symlink"
            ELSE "fix_is_regular")
    /\ UNCHANGED <<fsVars, ops, probes, start, prev>>
    /\ UNCHANGED restVars

\* target = get_nvidia_smi_target(); if test_nvidia_smi(): return True, ...
FixProbeSymlink ==
    /\ pc = "fix_probe_symlink"
    /\ LET p == ProbeRecord("symlink", "None")
       IN  /\ probes' = Append(probes, p)
           /\ IF AfterSymlinkProbe(p.ok) = "return"
              THEN Finish(Returned(TRUE,
                      <<"nvidia-smi already working (symlink to "
                        \o GetNvidiaSmiTarget(lnk) \o ")">>))
              ELSE Goto(AfterSymlinkProbe(p.ok))
    /\ UNCHANGED <<fsVars, ops, start, prev>>
    /\ UNCHANGED restVars

\* run_command(["sudo", "rm", L], check=True)
FixRm ==
    /\ pc = "fix_rm"
    /\ \E out \in Outcomes :
         LET res == RunCommand(out, TRUE)
         IN  /\ ops' = Append(ops, Ran(RmCommand, out))
             /\ IF res.exc = "none"
                THEN /\ lnk' = Missing
                     /\ Goto("fix_is_regular")
                ELSE /\ lnk' = lnk
                     /\ Finish(Wrap(res, "Failed to remove broken symlink"))
    /\ UNCHANGED <<parentExists, hExists, hWorks, oWorks, pathEnv, backups,
                   backupEscapes, clock, probes, start, prev>>
    /\ UNCHANGED restVars

\* if L.exists() and not is_nvidia_smi_symlink(): ... else: message_parts = []
FixIsRegular ==
    /\ pc = "fix_is_regular"
    /\ IF IsRegularBranch(lnk, hExists)
       THEN Goto("fix_probe_regular")
       ELSE /\ pc' = "create_check_host"
            /\ message_parts' = <<>>
            /\ UNCHANGED result
    /\ UNCHANGED <<fsVars, ops, probes, start, prev>>
    /\ UNCHANGED restVars

\* if test_nvidia_smi(L): return True, "already working, no fix needed"
FixProbeRegular ==
    /\ pc = "fix_probe_regular"
    /\ LET p == ProbeRecord("regular", WSL_NVIDIA_SMI_PATH)
       IN  /\ probes' = Append(probes, p)
           /\ IF AfterRegularProbe(p.ok) = "return"
              THEN Finish(Returned(TRUE,
                      <<"nvidia-smi already working, no fix needed">>))
              ELSE Goto(AfterRegularProbe(p.ok))
    /\ UNCHANGED <<fsVars, ops, start, prev>>
    /\ UNCHANGED restVars

\* backup_nvidia_smi up to the move: the guard, the timestamp, the validation
BackupCheck ==
    /\ pc = "backup_check"
    /\ IF BackupGuard(lnk, hExists)
       THEN /\ pc' = "create_check_host"
            /\ message_parts' = <<"Backed up old nvidia-smi to None">>
            /\ UNCHANGED result
       ELSE IF backupEscapes
       THEN Finish(Raised("NvidiaSmiError", "Invalid backup path", ""))
       ELSE Goto("backup_mv")
    /\ UNCHANGED <<fsVars, ops, probes, start, prev>>
    /\ UNCHANGED restVars

\* run_command(["sudo", "mv", L, backup_path], check=False)
BackupMv ==
    /\ pc = "backup_mv"
    /\ \E out \in Outcomes :
         LET res == RunCommand(out, FALSE)
             cmd == MvCommand(clock)
         IN  /\ ops' = Append(ops, Ran(cmd, out))
             /\ IF AfterCommand(res, "create_check_host") = "raise"
                THEN /\ UNCHANGED <<lnk, backups>>
                     /\ Finish(Wrap(res, "Failed to backup nvidia-smi"))
                ELSE /\ lnk' = IF cmd.src = WSL_NVIDIA_SMI_PATH
                               THEN Missing ELSE lnk
                     /\ backups' = backups \cup {cmd.dst}
                     /\ pc' = AfterCommand(res, "create_check_host")
                     /\ message_parts' =
                            <<"Backed up old nvidia-smi to " \o cmd.dst>>
                     /\ UNCHANGED result
    /\ UNCHANGED <<parentExists, hExists, hWorks, oWorks, pathEnv,
                   backupEscapes, clock, probes, start, prev>>
    /\ UNCHANGED restVars

\* create_nvidia_smi_symlink: the host check and the parent check
CreateCheckHost ==
    /\ pc = "create_check_host"
    /\ IF ~hExists
       THEN Finish(Raised("NvidiaSmiError", "Windows nvidia-smi not found at", ""))
       ELSE Goto(IF ~parentExists THEN "create_mkdir" ELSE "create_ln")
    /\ UNCHANGED <<fsVars, ops, probes, start, prev>>
    /\ UNCHANGED restVars

\* run_command(["sudo", "mkdir", "-p", parent], check=False)
CreateMkdir ==
    /\ pc = "create_mkdir"
    /\ \E out \in Outcomes :
         LET res == RunCommand(out, FALSE)
         IN  /\ ops' = Append(ops, Ran(MkdirCommand, out))
             /\ parentExists' = (parentExists \/ out = "ok")
             /\ IF AfterCommand(res, "create_ln") = "raise"
                THEN Finish(Wrap(res, "Failed to create directory"))
                ELSE Goto(AfterCommand(res, "create_ln"))
    /\ UNCHANGED <<lnk, hExists, hWorks, oWorks, pathEnv, backups,
                   backupEscapes, clock, probes, start, prev>>
    /\ UNCHANGED restVars

\* run_command(["sudo", "ln", "-sf", H, L], check=False), then
\* message_parts.append("Created symlink to H")
CreateLn ==
    /\ pc = "create_ln"
    /\ \E out \in Outcomes :
         \* ln cannot create L in a directory that does not exist
         LET eff == IF out = "ok" /\ ~parentExists THEN "nonzero" ELSE out
             res == RunCommand(eff, FALSE)
             cmd == LnCommand
         IN  /\ ops' = Append(ops, Ran(cmd, eff))
             /\ lnk' = IF eff = "ok" /\ cmd.dst = WSL_NVIDIA_SMI_PATH
                       THEN Symlink(cmd.src) ELSE lnk
             /\ IF AfterCommand(res, "fix_verify") = "raise"
                THEN Finish(Wrap(res, "Failed to create symlink"))
                ELSE /\ pc' = AfterCommand(res, "fix_verify")
                     /\ message_parts' = Append(message_parts,
                            "Created symlink to " \o WINDOWS_NVIDIA_SMI_PATH)
                     /\ UNCHANGED result
    /\ UNCHANGED <<parentExists, hExists, hWorks, oWorks, pathEnv, backups,
                   backupEscapes, clock, probes, start, prev>>
    /\ UNCHANGED restVars

\* if test_nvidia_smi(): ... return True, "; ".join(message_parts)
\* else: return False, "Symlink created but nvidia-smi still not working"
FixVerify ==
    /\ pc = "fix_verify"
    /\ LET p == ProbeRecord("verify", "None")
       IN  /\ probes' = Append(probes, p)
           /\ Finish(VerifyResult(p.ok, message_parts))
    /\ UNCHANGED <<fsVars, ops, start, prev>>
    /\ UNCHANGED restVars

\* ------------------------------------------------------- the outside world
\* an external change makes what is remembered of the last invocation stale;
\* only the L it found is kept
Forget ==
    /\ result' = NoResult
    /\ prev' = NoPrev
    /\ ops' = <<>>
    /\ probes' = <<>>
    /\ start' = [NoStart EXCEPT !.lnk = start.lnk]
    /\ UNCHANGED <<pc, message_parts>>

\* a driver installer or a manual edit replaces the object at L
EnvReplaceL ==
    /\ pc = "idle"
    /\ parentExists
    /\ \E o \in LObjects \ {lnk} : lnk' = o
    /\ Forget
    /\ UNCHANGED <<parentExists, hExists, hWorks, oWorks, pathEnv, backups,
                   backupEscapes, clock>>
    /\ UNCHANGED restVars

\* the host driver is installed, removed, or starts or stops working
EnvHost ==
    /\ pc = "idle"
    /\ \E he \in BOOLEAN, hw \in BOOLEAN :
         /\ (~he => ~hw)
         /\ <<he, hw>> # <<hExists, hWorks>>
         /\ hExists' = he
         /\ hWorks' = hw
    /\ Forget
    /\ UNCHANGED <<lnk, parentExists, oWorks, pathEnv, backups,
                   backupEscapes, clock>>
    /\ UNCHANGED restVars

\* PATH is changed, or the other nvidia-smi starts or stops working
EnvPath ==
    /\ pc = "idle"
    /\ \E p \in PathEnvs, ow \in BOOLEAN :
         /\ <<p, ow>> # <<pathEnv, oWorks>>
         /\ pathEnv' = p
         /\ oWorks' = ow
    /\ Forget
    /\ UNCHANGED <<lnk, parentExists, hExists, hWorks, backups,
                   backupEscapes, clock>>
    /\ UNCHANGED restVars

\* L's parent directory is removed with everything in it, or created empty
EnvParent ==
    /\ pc = "idle"
    /\ parentExists' = ~parentExists
    /\ lnk' = Missing
    /\ backups' = {}
    /\ Forget
    /\ UNCHANGED <<hExists, hWorks, oWorks, pathEnv, backupEscapes, clock>>
    /\ UNCHANGED restVars

\* the backup path starts or stops resolving inside the parent directory
EnvEscape ==
    /\ pc = "idle"
    /\ backupEscapes' = ~backupEscapes
    /\ Forget
    /\ UNCHANGED <<lnk, parentExists, hExists, hWorks, oWorks, pathEnv,
                   backups, clock>>
    /\ UNCHANGED restVars

\* a second passes
Tick ==
    /\ pc = "idle"
    /\ clock < MaxClock
    /\ clock' = clock + 1
    /\ UNCHANGED <<lnk, parentExists, hExists, hWorks, oWorks, pathEnv,
                   backups, backupEscapes, pc, message_parts, ops, probes,
                   start, result, prev>>
    /\ UNCHANGED restVars

Next ==
    \/ Call
    \/ FixCheckHost
    \/ FixIsSymlink
    \/ FixProbeSymlink
    \/ FixRm
    \/ FixIsRegular
    \/ FixProbeRegular
    \/ BackupCheck
    \/ BackupMv
    \/ CreateCheckHost
    \/ CreateMkdir
    \/ CreateLn
    \/ FixVerify
    \/ EnvReplaceL
    \/ EnvHost
    \/ EnvPath
    \/ EnvParent
    \/ EnvEscape
    \/ Tick

Spec == Init /\ [][Next]_vars

\* a step of an invocation in progress; every process it starts has a
\* timeout of 3 or 5 seconds, so a step that can be taken is taken
FixStep ==
    \/ FixCheckHost \/ FixIsSymlink \/ FixProbeSymlink \/ FixRm
    \/ FixIsRegular \/ FixProbeRegular \/ BackupCheck \/ BackupMv
    \/ CreateCheckHost \/ CreateMkdir \/ CreateLn \/ FixVerify

FairSpec == Spec /\ WF_vars(FixStep)

\* ===================================================================
\* compare_versions and version_meets_minimum (cuda_cli/core/driver.py)
\* ===================================================================
\* A version string is the sequence of its characters.
MIN_WINDOWS_DRIVER == <<"5", "2", "8", ".", "3", "3">>
RECOMMENDED_DRIVER == <<"5", "6", "6", ".", "0", "3">>

DigitValue == [c \in {"0", "1", "2", "3", "4", "5", "6", "7", "8", "9"} |->
                 CASE c = "0" -> 0 [] c = "1" -> 1 [] c = "2" -> 2
                   [] c = "3" -> 3 [] c = "4" -> 4 [] c = "5" -> 5
                   [] c = "6" -> 6 [] c = "7" -> 7 [] c = "8" -> 8
                   [] OTHER -> 9]

\* the dot-delimited segments of a version string, each a character sequence
RECURSIVE SplitDots(_, _)
SplitDots(str, cur) ==
    IF str = <<>> THEN <<cur>>
    ELSE IF Head(str) = "." THEN <<cur>> \o SplitDots(Tail(str), <<>>)
    ELSE SplitDots(Tail(str), Append(cur, Head(str)))

\* int() of a segment of digits
RECURSIVE SegmentValue(_, _)
SegmentValue(seg, acc) ==
    IF seg = <<>> THEN acc
    ELSE SegmentValue(Tail(seg), 10 * acc + DigitValue[Head(seg)])

\* the release part of packaging's version pattern, [0-9]+(\.[0-9]+)*: one
\* or more non-empty runs of digits separated by single dots
DottedNumeric(str) ==
    LET segs == SplitDots(str, <<>>)
    IN  \A i \in DOMAIN segs :
            /\ segs[i] # <<>>
            /\ \A j \in DOMAIN segs[i] : segs[i][j] \in DOMAIN DigitValue

\* the pre-release letter of the pattern that the strings tried here contain
PreTag == "a"
HasPreTag(str) == \E i \in DOMAIN str : str[i] = PreTag
TagIndex(str) == CHOOSE i \in DOMAIN str :
                    str[i] = PreTag /\ \A j \in 1..(i - 1) : str[j] # PreTag

\* the parts around the pre-release letter, each without the one separator
\* the pattern allows next to the letter: release [.]? a [.]? [0-9]*
ReleasePart(str) ==
    IF ~HasPreTag(str) THEN str
    ELSE LET head == SubSeq(str, 1, TagIndex(str) - 1)
         IN  IF head # <<>> /\ head[Len(head)] = "."
             THEN SubSeq(head, 1, Len(head) - 1) ELSE head
PreNumber(str) ==
    LET tail == SubSeq(str, TagIndex(str) + 1, Len(str))
    IN  IF tail # <<>> /\ Head(tail) = "." THEN Tail(tail) ELSE tail

\* packaging's version pattern on strings of digits, dots and the letter: a
\* release, then optionally a pre-release segment
ValidVersion(str) ==
    /\ DottedNumeric(ReleasePart(str))
    /\ HasPreTag(str) =>
          \A j \in DOMAIN PreNumber(str) :
              PreNumber(str)[j] \in DOMAIN DigitValue

\* the release tuple without its trailing zeros, which is what packaging
\* compares
RECURSIVE StripZeros(_)
StripZeros(rel) ==
    IF rel # <<>> /\ rel[Len(rel)] = 0
    THEN StripZeros(SubSeq(rel, 1, Len(rel) - 1))
    ELSE rel

\* the pre-release part of the key of a final release, which sorts after
\* every pre-release number
Final == -1

\* version.parse(str) of a valid string, as its comparison key
ParseVersion(str) ==
    LET segs == SplitDots(ReleasePart(str), <<>>)
    IN  [release |->
             StripZeros([i \in DOMAIN segs |-> SegmentValue(segs[i], 0)]),
         pre |-> IF HasPreTag(str) THEN SegmentValue(PreNumber(str), 0)
                 ELSE Final]

\* Python's < on tuples of ints
RECURSIVE TupleLess(_, _)
TupleLess(x, y) ==
    IF y = <<>> THEN FALSE
    ELSE IF x = <<>> THEN TRUE
    ELSE IF Head(x) # Head(y) THEN Head(x) < Head(y)
    ELSE TupleLess(Tail(x), Tail(y))

\* Version.__lt__: the release tuples, then pre-release before final
KeyLess(v1, v2) ==
    \/ TupleLess(v1.release, v2.release)
    \/ /\ v1.release = v2.release
       /\ v1.pre # Final
       /\ v2.pre = Final \/ v1.pre < v2.pre

\* what a call gave: a value, or the exception it raised
Value(v) == [exc |-> "none", value |-> v]
Exception(e) == [exc |-> e, value |-> 0]

\* the equal case reported as greater
CompareVersionsNoEqual(ver1, ver2) ==
    IF ~ValidVersion(ver1) \/ ~ValidVersion(ver2)
    THEN Exception("InvalidVersion")
    ELSE IF KeyLess(ParseVersion(ver1), ParseVersion(ver2)) THEN Value(-1)
    ELSE Value(1)

\* compare_versions(ver1, ver2)
CompareVersions(ver1, ver2) ==
    IF ~ValidVersion(ver1) \/ ~ValidVersion(ver2)
    THEN Exception("InvalidVersion")
    ELSE LET v1 == ParseVersion(ver1)
             v2 == ParseVersion(ver2)
         IN  IF KeyLess(v1, v2) THEN Value(-1)
             ELSE IF KeyLess(v2, v1) THEN Value(1)
             ELSE Value(0)

\* the boundary excluded
VersionMeetsMinimumStrict(driver_version, minimum_version) ==
    LET c == CompareVersions(driver_version, minimum_version)
    IN  IF c.exc # "none" THEN c ELSE Value(c.value > 0)

\* version_meets_minimum(driver_version, minimum_version)
VersionMeetsMinimum(driver_version, minimum_version) ==
    LET c == CompareVersions(driver_version, minimum_version)
    IN  IF c.exc # "none" THEN c ELSE Value(c.value >= 0)

\* the longest version string tried exhaustively, and its characters
MaxVerLen == 3
VerChars == {"0", "1", "2", "."}

RECURSIVE Strings(_)
Strings(n) ==
    IF n = 0 THEN {<<>>}
    ELSE LET shorter == Strings(n - 1)
         IN  shorter \cup {Append(str, c) : str \in shorter, c \in VerChars}

VersionSamples ==
    {MIN_WINDOWS_DRIVER, RECOMMENDED_DRIVER,
     <<"5", "0", "0", ".", "0", "0">>,
     <<"5", "2", "8", ".", "4">>,
     <<"5", "6", "6", ".", "3">>,
     <<"5", "6", "6", ".", ".", "0", "3">>,
     <<"5", "6", "6", ".">>,
     <<"5", "2", "8", ".", "a">>,
     <<"5", "6", "6", ".", "0", "3", "a", "1">>,
     <<"1", "a">>, <<"a">>, <<"1", "a", "a">>, <<"1", "a", ".", ".", "1">>}

VersionInputs == (Strings(MaxVerLen) \ {<<>>}) \cup VersionSamples

\* every other component at rest
EngineIdle ==
    /\ backups = {} /\ backupEscapes = FALSE
    /\ clock = 0 /\ pc = "idle" /\ message_parts = <<>>
    /\ ops = <<>> /\ probes = <<>>
    /\ start = NoStart /\ result = NoResult /\ prev = NoPrev

FsOff ==
    /\ lnk = Missing /\ parentExists = FALSE
    /\ hExists = FALSE /\ hWorks = FALSE /\ oWorks = FALSE
    /\ pathEnv = <<>>
    /\ EngineIdle

fsAll == <<lnk, parentExists, hExists, hWorks, oWorks, pathEnv, backups,
           backupEscapes, clock, pc, message_parts, ops, probes, start,
           result, prev>>

VerInit ==
    /\ FsOff
    /\ wsl = Off /\ ev = Off /\ run = Off /\ race = Off
    /\ \E a \in VersionInputs, b \in VersionInputs :
          ver = [at |-> "args", a |-> a, b |-> b]

\* a caller compares a with b, b with a, a with itself, and asks whether a
\* meets b
Compare ==
    /\ ver.at = "args"
    /\ ver' = [at |-> "done", a |-> ver.a, b |-> ver.b,
               ab |-> CompareVersions(ver.a, ver.b),
               ba |-> CompareVersions(ver.b, ver.a),
               aa |-> CompareVersions(ver.a, ver.a),
               meets |-> VersionMeetsMinimum(ver.a, ver.b)]
    /\ UNCHANGED <<fsAll, wsl, ev, run, race>>

VerNext == Compare

VerSpec == VerInit /\ [][VerNext]_vars

\* ===================================================================
\* is_wsl2 (cuda_cli/core/system.py)
\* ===================================================================
WSL_INTEROP_PATHS == <<"WSLInterop", "WSLInterop-late">>

\* what stat() of a path gives: the file is there, it is not, or the call
\* fails with an error other than "no such file" (EACCES on a directory of
\* the path)
Stats == {"yes", "no", "error"}

\* Path.exists(): up to Python 3.13 it swallows only the not-found family of
\* errors and lets PermissionError out; from 3.14 on it returns False for
\* every OSError.  strict says which of the two the interpreter does.
Exists(stat, strict) ==
    CASE stat = "yes" -> Value(TRUE)
      [] stat = "no" -> Value(FALSE)
      [] OTHER -> IF strict THEN Exception("PermissionError")
                  ELSE Value(FALSE)

\* contents of /proc/version, as words
ProcVersions ==
    {<<"Linux", "version", "5.15", "microsoft-standard-WSL2">>,
     <<"Linux", "version", "5.15", "Microsoft", "wsl2">>,
     <<"Linux", "version", "4.4", "Microsoft">>,
     <<"Linux", "version", "6.8", "generic">>}

\* the words in which re.IGNORECASE finds "wsl2"
HasWsl2 == {"microsoft-standard-WSL2", "wsl2", "WSL2"}

\* re.search(r"(microsoft.*wsl2|wsl2)", content, re.IGNORECASE)
MatchesWsl2(content) == \E i \in DOMAIN content : content[i] \in HasWsl2

WslInit ==
    /\ FsOff
    /\ race = Off /\ ver = Off /\ ev = Off /\ run = Off
    /\ \E env \in {"", "Ubuntu"}, i1 \in Stats, i2 \in Stats, pr \in Stats,
          rd \in {"ok", "error"}, content \in ProcVersions,
          strict \in BOOLEAN :
          wsl = [at |-> "env", env |-> env, interop |-> <<i1, i2>>,
                 proc |-> pr, read |-> rd, content |-> content,
                 strict |-> strict, i |-> 1, result |-> Value(FALSE)]

WslDone(r) == wsl' = [wsl EXCEPT !.at = "done", !.result = r]

\* line 27: if os.environ.get("WSL_DISTRO_NAME")
WslCheckEnv ==
    /\ wsl.at = "env"
    /\ IF wsl.env # "" THEN WslDone(Value(TRUE))
       ELSE wsl' = [wsl EXCEPT !.at = "interop"]
    /\ UNCHANGED <<fsAll, race, ver, ev, run>>

\* lines 31-33: one turn of the loop over WSL_INTEROP_PATHS
WslCheckInterop ==
    /\ wsl.at = "interop"
    /\ LET e == Exists(wsl.interop[wsl.i], wsl.strict)
       IN  IF e.exc # "none" THEN WslDone(e)
           ELSE IF e.value THEN WslDone(Value(TRUE))
           ELSE IF wsl.i < Len(WSL_INTEROP_PATHS)
                THEN wsl' = [wsl EXCEPT !.i = wsl.i + 1]
                ELSE wsl' = [wsl EXCEPT !.at = "proc"]
    /\ UNCHANGED <<fsAll, race, ver, ev, run>>

\* line 36: if PROC_VERSION_PATH.exists()
WslCheckProc ==
    /\ wsl.at = "proc"
    /\ LET e == Exists(wsl.proc, wsl.strict)
       IN  IF e.exc # "none" THEN WslDone(e)
           ELSE IF e.value THEN wsl' = [wsl EXCEPT !.at = "read"]
           ELSE WslDone(Value(FALSE))
    /\ UNCHANGED <<fsAll, race, ver, ev, run>>

\* lines 37-43: read_text and the search, inside try/except OSError
WslReadVersion ==
    /\ wsl.at = "read"
    /\ IF wsl.read = "error" THEN WslDone(Value(FALSE))
       ELSE WslDone(Value(MatchesWsl2(wsl.content)))
    /\ UNCHANGED <<fsAll, race, ver, ev, run>>

WslNext ==
    \/ WslCheckEnv
    \/ WslCheckInterop
    \/ WslCheckProc
    \/ WslReadVersion

WslSpec == WslInit /\ [][WslNext]_vars

\* ===================================================================
\* driver queries and check_driver_compatibility (cuda_cli/core/driver.py)
\* ===================================================================
CUDA_VERSION == <<"1", "2", ".", "9">>

\* Python's None where a string is expected; no query returns an empty string
None == <<>>

\* stdout is a sequence of tokens: the two labels, blanks, the characters of
\* version numbers, and "x" for any other text
DriverLabel == "Driver Version:"
CudaLabel == "CUDA Version:"
VersionChars == DOMAIN DigitValue \cup {"."}

\* the index after the blanks that start at k
RECURSIVE SkipBlanks(_, _)
SkipBlanks(out, k) ==
    IF k <= Len(out) /\ out[k] = " " THEN SkipBlanks(out, k + 1) ELSE k

\* the index after the digits and dots that start at k
RECURSIVE RunEnd(_, _)
RunEnd(out, k) ==
    IF k <= Len(out) /\ out[k] \in VersionChars THEN RunEnd(out, k + 1) ELSE k

\* re.search(label + r"\s*([0-9.]+)", stdout): group 1 of the leftmost
\* match, or None
SearchVersion(label, out) ==
    LET hits == {i \in DOMAIN out :
                    /\ out[i] = label
                    /\ RunEnd(out, SkipBlanks(out, i + 1)) >
                           SkipBlanks(out, i + 1)}
    IN  IF hits = {} THEN None
        ELSE LET i == CHOOSE h \in hits : \A g \in hits : h <= g
                 k == SkipBlanks(out, i + 1)
             IN  SubSeq(out, k, RunEnd(out, k) - 1)

\* stdout.strip()
RECURSIVE Strip(_)
Strip(out) ==
    IF out # <<>> /\ Head(out) = " " THEN Strip(Tail(out))
    ELSE IF out # <<>> /\ out[Len(out)] = " "
    THEN Strip(SubSeq(out, 1, Len(out) - 1))
    ELSE out

\* the body shared by the three queries: no process when H is absent, else
\* one run of H with check=False
Query(he, out, parsed, what) ==
    IF ~he THEN Value(None)
    ELSE LET r == RunCommand(out, FALSE)
         IN  IF r.exc = "SubprocessError"
             THEN [exc |-> "DriverError", value |-> None,
                   text |-> "Failed to get " \o what]
             ELSE IF r.exc # "none"
             THEN [exc |-> r.exc, value |-> None, text |-> r.text]
             ELSE IF r.returncode # 0
             THEN [exc |-> "DriverError", value |-> None,
                   text |-> "nvidia-smi failed"]
             ELSE [exc |-> "none", value |-> parsed, text |-> ""]

GetDriverVersion(he, out, stdout) ==
    Query(he, out, SearchVersion(DriverLabel, stdout), "driver version")

GetDriverCudaVersion(he, out, stdout) ==
    Query(he, out, SearchVersion(CudaLabel, stdout), "CUDA version")

GetGpuName(he, out, stdout) ==
    Query(he, out, Strip(stdout), "GPU name")

\* ------------------------------------------ check_driver_compatibility
NoEvResult == [kind |-> "none", exc |-> "", text |-> "",
               is_compatible |-> FALSE, message |-> <<>>, info |-> <<>>]
EvReturned(ok, message, info) ==
    [kind |-> "returned", exc |-> "", text |-> "",
     is_compatible |-> ok, message |-> message, info |-> info]
EvRaised(e, t) ==
    [kind |-> "raised", exc |-> e, text |-> t,
     is_compatible |-> FALSE, message |-> <<>>, info |-> <<>>]

\* the host-absent case raising like the undetermined case
NotFoundRaised == EvRaised("DriverError", "Windows NVIDIA driver not found")

\* lines 176-186
NotFoundResult ==
    EvReturned(FALSE, <<"Windows NVIDIA driver not found">>,
               [driver_version |-> None, cuda_version |-> None,
                gpu_name |-> None, min_required |-> MIN_WINDOWS_DRIVER,
                recommended |-> RECOMMENDED_DRIVER])

\* lines 196-203
InfoDict(driver_ver, cuda_ver, gpu_name) ==
    [driver_version |-> driver_ver, cuda_version |-> cuda_ver,
     gpu_name |-> gpu_name, min_required |-> MIN_WINDOWS_DRIVER,
     recommended |-> RECOMMENDED_DRIVER, target_cuda |-> CUDA_VERSION]

\* an undetermined version reported like an absent host
AfterDriverVersionNotFound(q) ==
    IF q.exc # "none" THEN EvRaised(q.exc, q.text)
    ELSE IF q.value = None THEN NotFoundResult
    ELSE NoEvResult

\* lines 189-191: how the evaluator ends on what get_driver_version gave,
\* NoEvResult when it goes on
AfterDriverVersion(q) ==
    IF q.exc # "none" THEN EvRaised(q.exc, q.text)
    ELSE IF q.value = None
    THEN EvRaised("DriverError", "Could not determine driver version")
    ELSE NoEvResult

UpToDateMessage(d) ==
    <<"Driver ">> \o d \o <<" is up-to-date and supports CUDA ">>
        \o CUDA_VERSION
RecommendedMessage(d) ==
    <<"Driver ">> \o d \o <<" supports CUDA ">> \o CUDA_VERSION
        \o <<", but ">> \o RECOMMENDED_DRIVER \o <<"+ recommended">>
TooOldMessage(d) ==
    <<"Driver ">> \o d \o <<" is too old. ", "Minimum ">>
        \o MIN_WINDOWS_DRIVER \o <<" required for CUDA ">> \o CUDA_VERSION

\* compatible only from the recommended version on
ClassifyRecommendedOnly(d, info) ==
    LET rec == VersionMeetsMinimum(d, RECOMMENDED_DRIVER)
    IN  IF rec.exc # "none" THEN EvRaised(rec.exc, "")
        ELSE IF rec.value THEN EvReturned(TRUE, UpToDateMessage(d), info)
        ELSE EvReturned(FALSE, TooOldMessage(d), info)

\* lines 205-220
Classify(d, info) ==
    LET min == VersionMeetsMinimum(d, MIN_WINDOWS_DRIVER)
        rec == VersionMeetsMinimum(d, RECOMMENDED_DRIVER)
    IN  IF min.exc # "none" THEN EvRaised(min.exc, "")
        ELSE IF min.value
        THEN IF rec.exc # "none" THEN EvRaised(rec.exc, "")
             ELSE IF rec.value
             THEN EvReturned(TRUE, UpToDateMessage(d), info)
             ELSE EvReturned(TRUE, RecommendedMessage(d), info)
        ELSE EvReturned(FALSE, TooOldMessage(d), info)

\* what nvidia-smi prints
SmiOutputs ==
    {<<>>,
     <<"x">>,
     <<"x", DriverLabel, " ">> \o RECOMMENDED_DRIVER
         \o <<" ", CudaLabel, " ">> \o CUDA_VERSION \o <<" ", "x">>,
     <<DriverLabel, " ">> \o MIN_WINDOWS_DRIVER \o <<"x", CudaLabel, "x">>,
     <<DriverLabel>> \o <<"5", "0", "0", ".", "0", "0">>,
     <<DriverLabel, "x", DriverLabel, " ", " ">>
         \o <<"5", "3", "5", ".", "1">>,
     <<DriverLabel, " ">> \o <<"5", "6", "6", ".", ".", "0", "3">>,
     <<CudaLabel, " ">> \o CUDA_VERSION}

\* what nvidia-smi --query-gpu=name prints
GpuOutputs == {<<>>, <<" ">>, <<" ", "x", " ", "x", " ">>}

QueryRecord(query, he, out, stdout) ==
    IF he THEN <<[query |-> query, outcome |-> out, stdout |-> stdout]>>
    ELSE <<>>

EvStart == [at |-> "host", host |-> FALSE, driver_ver |-> None,
            cuda_ver |-> None, gpu_name |-> None, queries |-> <<>>,
            result |-> NoEvResult]

EvInit ==
    /\ lnk = Missing /\ parentExists = FALSE
    /\ hExists \in BOOLEAN /\ hWorks = FALSE /\ oWorks = FALSE
    /\ pathEnv = <<>>
    /\ EngineIdle
    /\ race = Off /\ ver = Off /\ wsl = Off /\ run = Off
    /\ ev = EvStart

EvDone(r) == ev' = [ev EXCEPT !.at = "done", !.result = r]

\* lines 175-186
EvCheckHost ==
    /\ ev.at = "host"
    /\ IF ~hExists THEN EvDone(NotFoundResult)
       ELSE ev' = [ev EXCEPT !.at = "driver_version", !.host = TRUE]
    /\ UNCHANGED <<fsAll, race, ver, wsl, run>>

\* lines 189-191
EvGetDriverVersion ==
    /\ ev.at = "driver_version"
    /\ \E out \in Outcomes, stdout \in SmiOutputs :
          LET q == GetDriverVersion(hExists, out, stdout)
              log == ev.queries
                        \o QueryRecord("driver_version", hExists, out, stdout)
              end == AfterDriverVersion(q)
          IN  IF end.kind # "none"
              THEN ev' = [ev EXCEPT !.at = "done", !.result = end,
                                    !.queries = log]
              ELSE ev' = [ev EXCEPT !.at = "cuda_version",
                                    !.driver_ver = q.value, !.queries = log]
    /\ UNCHANGED <<fsAll, race, ver, wsl, run>>

\* line 193
EvGetCudaVersion ==
    /\ ev.at = "cuda_version"
    /\ \E out \in Outcomes, stdout \in SmiOutputs :
          LET q == GetDriverCudaVersion(hExists, out, stdout)
              log == ev.queries
                        \o QueryRecord("cuda_version", hExists, out, stdout)
          IN  IF q.exc # "none"
              THEN ev' = [ev EXCEPT !.at = "done", !.queries = log,
                                    !.result = EvRaised(q.exc, q.text)]
              ELSE ev' = [ev EXCEPT !.at = "gpu_name",
                                    !.cuda_ver = q.value, !.queries = log]
    /\ UNCHANGED <<fsAll, race, ver, wsl, run>>

\* line 194
EvGetGpuName ==
    /\ ev.at = "gpu_name"
    /\ \E out \in Outcomes, stdout \in GpuOutputs :
          LET q == GetGpuName(hExists, out, stdout)
              log == ev.queries
                        \o QueryRecord("gpu_name", hExists, out, stdout)
          IN  IF q.exc # "none"
              THEN ev' = [ev EXCEPT !.at = "done", !.queries = log,
                                    !.result = EvRaised(q.exc, q.text)]
              ELSE ev' = [ev EXCEPT !.at = "classify",
                                    !.gpu_name = q.value, !.queries = log]
    /\ UNCHANGED <<fsAll, race, ver, wsl, run>>

\* lines 196-220
EvClassify ==
    /\ ev.at = "classify"
    /\ EvDone(Classify(ev.driver_ver,
                       InfoDict(ev.driver_ver, ev.cuda_ver, ev.gpu_name)))
    /\ UNCHANGED <<fsAll, race, ver, wsl, run>>

\* another process removes or installs H while the evaluator runs
EvHostChanges ==
    /\ ev.at \in {"driver_version", "cuda_version", "gpu_name"}
    /\ hExists' = ~hExists
    /\ UNCHANGED <<lnk, parentExists, hWorks, oWorks, pathEnv, backups,
                   backupEscapes, clock, pc, message_parts, ops, probes,
                   start, result, prev, race, ver, wsl, ev, run>>

EvNext ==
    \/ EvCheckHost
    \/ EvGetDriverVersion
    \/ EvGetCudaVersion
    \/ EvGetGpuName
    \/ EvClassify
    \/ EvHostChanges

EvalSpec == EvInit /\ [][EvNext]_vars

\* ===================================================================
\* the commands check, fix and info (cuda_cli/commands)
\* ===================================================================
\* ===================================================================
Finished == pc = "idle" /\ result.kind # "none"

\* what is_wsl2() can give its caller
IsWsl2Results == {Value(TRUE), Value(FALSE), Exception("PermissionError")}

\* the gate let through whatever is_wsl2 says
GateFailsNever(w) == w.exc # "none"

\* the commands' first statement: if not is_wsl2(): ... raise typer.Exit(1);
\* an exception out of is_wsl2 ends the command as well
GateFails(w) == w.exc # "none" \/ ~w.value

\* the exit status of the process: typer.Exit(code), 0 when the command
\* function returns, 1 when an exception escapes it
Running == -1
ExitFailure == 1
ExitSuccess == 0

CmdInit ==
    /\ FsInit
    /\ pathEnv = <<"L">> /\ oWorks = FALSE
    /\ race = Off /\ ver = Off /\ wsl = Off /\ ev = Off
    /\ \E c \in {"check", "fix", "info"}, j \in BOOLEAN, nf \in BOOLEAN :
          /\ nf => c = "check"
          /\ run = [at |-> "gate", command |-> c, json_output |-> j,
                    no_fix |-> nf, is_wsl2 |-> Value(FALSE),
                    status |-> Running, queries |-> <<>>,
                    driver_version |-> None,
                    fs0 |-> [lnk |-> lnk, parentExists |-> parentExists]]

Exit(code) == run' = [run EXCEPT !.at = "exited", !.status = code]

\* check.py 46-57, fix.py 47-52, info.py 43-45
CmdGate ==
    /\ run.at = "gate"
    /\ \E w \in IsWsl2Results :
          IF GateFails(w)
          THEN /\ run' = [run EXCEPT !.at = "exited", !.is_wsl2 = w,
                                     !.status = ExitFailure]
               /\ UNCHANGED ev
          ELSE IF run.command = "check" /\ run.no_fix
          THEN /\ run' = [run EXCEPT !.at = "evaluate", !.is_wsl2 = w]
               /\ ev' = EvStart
          ELSE /\ run' = [run EXCEPT !.is_wsl2 = w,
                            !.at = CASE run.command = "check" -> "repair"
                                     [] run.command = "fix" -> "host"
                                     [] OTHER -> "collect"]
               /\ UNCHANGED ev
    /\ UNCHANGED <<fsAll, race, ver, wsl>>

\* fix.py 73-81
FixCmdCheckHost ==
    /\ run.at = "host"
    /\ IF ~hExists THEN Exit(ExitFailure)
       ELSE run' = [run EXCEPT !.at = "repair"]
    /\ UNCHANGED <<fsAll, race, ver, wsl, ev>>

\* check.py 62, fix.py 88: the call of fix_nvidia_smi
CmdRepair ==
    /\ run.at = "repair"
    /\ result.kind = "none"
    /\ Call

\* the evaluator called whatever the repair did
AfterRepairGoOn(res) == "evaluate"

\* a repair that returned success=False treated like one that raised
AfterRepairStrict(res) ==
    IF res.kind = "raised" \/ ~res.success THEN "exited" ELSE "evaluate"

\* check.py 61-75: NvidiaSmiError ends the command, any other exception
\* escapes it, a returned tuple (success or not) lets it go on
AfterRepair(res) == IF res.kind = "raised" THEN "exited" ELSE "evaluate"

CheckAfterRepair ==
    /\ run.at = "repair" /\ run.command = "check"
    /\ Finished
    /\ IF AfterRepair(result) = "exited"
       THEN Exit(ExitFailure) /\ UNCHANGED ev
       ELSE run' = [run EXCEPT !.at = AfterRepair(result)] /\ ev' = EvStart
    /\ UNCHANGED <<fsAll, race, ver, wsl>>

\* check.py 81-150: the exit status after the evaluator
CheckStatus(r, json_output) ==
    IF r.kind = "raised" THEN ExitFailure
    ELSE IF json_output THEN ExitSuccess
    ELSE IF r.info.driver_version = None THEN ExitFailure
    ELSE IF r.is_compatible THEN ExitSuccess
    ELSE ExitFailure

CheckAfterEvaluate ==
    /\ run.at = "evaluate"
    /\ ev.at = "done"
    /\ Exit(CheckStatus(ev.result, run.json_output))
    /\ UNCHANGED <<fsAll, race, ver, wsl, ev>>

\* fix.py 88-105 and 143-152
FixAfterRepair ==
    /\ run.at = "repair" /\ run.command = "fix"
    /\ Finished
    /\ IF result.kind = "raised" THEN Exit(ExitFailure)
       ELSE IF run.json_output THEN Exit(ExitSuccess)
       ELSE run' = [run EXCEPT !.at = "test"]
    /\ UNCHANGED <<fsAll, race, ver, wsl, ev>>

GpuInfoQueries == <<"gpu_name", "driver_version", "cuda_version">>

\* fix.py 112-139: the probe, then the three queries, of which any may
\* raise and end the block (the exception is swallowed)
FixCmdTest ==
    /\ run.at = "test"
    /\ probes' = Append(probes, ProbeRecord("fix_command", "None"))
    /\ IF TestNvidiaSmi("None", pathEnv, lnk, hExists, hWorks, oWorks)
       THEN \E k \in 1..Len(GpuInfoQueries) :
               run' = [run EXCEPT !.at = "exited", !.status = ExitSuccess,
                          !.queries = IF hExists
                                      THEN SubSeq(GpuInfoQueries, 1, k)
                                      ELSE <<>>]
       ELSE Exit(ExitFailure)
    /\ UNCHANGED <<lnk, parentExists, hExists, hWorks, oWorks, pathEnv,
                   backups, backupEscapes, clock, pc, message_parts, ops,
                   start, result, prev, race, ver, wsl, ev>>

\* info.py 53-62: the three queries; DriverError leaves all three None, any
\* other exception escapes
InfoCollect ==
    /\ run.at = "collect"
    /\ \E out \in Outcomes, stdout \in SmiOutputs, k \in 1..3 :
          LET q == GetDriverVersion(hExists, out, stdout)
              issued == IF ~hExists THEN <<>>
                        ELSE IF q.exc # "none" THEN <<"driver_version">>
                        ELSE SubSeq(<<"driver_version", "cuda_version",
                                      "gpu_name">>, 1, k)
          IN  IF q.exc \notin {"none", "DriverError"}
              THEN run' = [run EXCEPT !.at = "exited", !.queries = issued,
                                      !.status = ExitFailure]
              ELSE run' = [run EXCEPT !.at = "output", !.queries = issued,
                              !.driver_version =
                                  IF q.exc = "none" /\ k = 3 THEN q.value
                                  ELSE None]
    /\ UNCHANGED <<fsAll, race, ver, wsl, ev>>

\* info.py 87-123
InfoOutput ==
    /\ run.at = "output"
    /\ IF run.json_output \/ run.driver_version = None
       THEN Exit(ExitSuccess)
       ELSE IF VersionMeetsMinimum(run.driver_version,
                                   MIN_WINDOWS_DRIVER).exc # "none"
       THEN Exit(ExitFailure)
       ELSE Exit(ExitSuccess)
    /\ UNCHANGED <<fsAll, race, ver, wsl, ev>>

CmdNext ==
    \/ CmdGate
    \/ FixCmdCheckHost
    \/ CmdRepair
    \/ FixCheckHost \/ FixIsSymlink \/ FixProbeSymlink \/ FixRm
    \/ FixIsRegular \/ FixProbeRegular \/ BackupCheck \/ BackupMv
    \/ CreateCheckHost \/ CreateMkdir \/ CreateLn \/ FixVerify
    \/ CheckAfterRepair
    \/ EvCheckHost \/ EvGetDriverVersion \/ EvGetCudaVersion
    \/ EvGetGpuName \/ EvClassify
    \/ CheckAfterEvaluate
    \/ FixAfterRepair
    \/ FixCmdTest
    \/ InfoCollect
    \/ InfoOutput

CmdSpec == CmdInit /\ [][CmdNext]_vars

\* ===================================================================
\* two invocations of fix_nvidia_smi at once (cuda_cli/core/nvidia_smi.py)
\* ===================================================================
Procs == {1, 2}
Other(p) == 3 - p

\* what the commands do with the object they find at L: rm and mv fail on a
\* missing file, ln -sf replaces whatever is there, mkdir -p succeeds
RmOutcome(l) == IF l.kind = "missing" THEN "nonzero" ELSE "ok"
MvOutcome(l) == IF l.kind = "missing" THEN "nonzero" ELSE "ok"
MkdirOutcome == "ok"
LnOutcome(pe) == IF pe THEN "ok" ELSE "nonzero"

\* an invocation's own state: where it is, what it ran, the kind of object
\* its mv moved away, its message parts and how it ended
ProcStart == [pc |-> "fix_check_host", ops |-> <<>>, moved |-> "none",
              message_parts |-> <<>>, result |-> NoResult]

raceFixed == <<hExists, hWorks, oWorks, pathEnv, backupEscapes, clock, pc,
               message_parts, ops, probes, start, result, prev, ver, wsl,
               ev, run>>

RaceInit ==
    /\ FsInit
    /\ pathEnv = <<"L">> /\ oWorks = FALSE
    /\ ver = Off /\ wsl = Off /\ ev = Off /\ run = Off
    /\ race = [lnk0 |-> lnk, procs |-> [p \in Procs |-> ProcStart]]

Me(p) == race.procs[p]
RaceGoto(p, next) == race' = [race EXCEPT !.procs[p].pc = next]
RaceFinish(p, r) ==
    race' = [race EXCEPT !.procs[p].pc = "done", !.procs[p].result = r]

\* lines 162-165
RaceCheckHost(p) ==
    /\ Me(p).pc = "fix_check_host"
    /\ IF HostCheck(hExists) = "raise"
       THEN RaceFinish(p, Raised("NvidiaSmiError",
                                 "Windows nvidia-smi not found", ""))
       ELSE RaceGoto(p, HostCheck(hExists))
    /\ UNCHANGED <<lnk, parentExists, backups, raceFixed>>

\* line 168
RaceIsSymlink(p) ==
    /\ Me(p).pc = "fix_is_symlink"
    /\ RaceGoto(p, IF IsNvidiaSmiSymlink(lnk) THEN "fix_probe_symlink"
                   ELSE "fix_is_regular")
    /\ UNCHANGED <<lnk, parentExists, backups, raceFixed>>

\* lines 169-171
RaceProbeSymlink(p) ==
    /\ Me(p).pc = "fix_probe_symlink"
    /\ LET ok == TestNvidiaSmi("None", pathEnv, lnk, hExists, hWorks, oWorks)
       IN  IF AfterSymlinkProbe(ok) = "return"
           THEN RaceFinish(p, Returned(TRUE,
                    <<"nvidia-smi already working (symlink to "
                      \o GetNvidiaSmiTarget(lnk) \o ")">>))
           ELSE RaceGoto(p, AfterSymlinkProbe(ok))
    /\ UNCHANGED <<lnk, parentExists, backups, raceFixed>>

\* lines 174-177
RaceRm(p) ==
    /\ Me(p).pc = "fix_rm"
    /\ LET out == RmOutcome(lnk)
           res == RunCommand(out, TRUE)
           log == Append(Me(p).ops, Ran(RmCommand, out))
       IN  IF res.exc = "none"
           THEN /\ lnk' = Missing
                /\ race' = [race EXCEPT !.procs[p].pc = "fix_is_regular",
                                        !.procs[p].ops = log]
           ELSE /\ lnk' = lnk
                /\ race' = [race EXCEPT !.procs[p].pc = "done",
                               !.procs[p].ops = log,
                               !.procs[p].result =
                                   Wrap(res, "Failed to remove broken symlink")]
    /\ UNCHANGED <<parentExists, backups, raceFixed>>

\* line 180
RaceIsRegular(p) ==
    /\ Me(p).pc = "fix_is_regular"
    /\ RaceGoto(p, IF IsRegularBranch(lnk, hExists) THEN "fix_probe_regular"
                   ELSE "create_check_host")
    /\ UNCHANGED <<lnk, parentExists, backups, raceFixed>>

\* lines 181-182
RaceProbeRegular(p) ==
    /\ Me(p).pc = "fix_probe_regular"
    /\ LET ok == TestNvidiaSmi(WSL_NVIDIA_SMI_PATH, pathEnv, lnk, hExists,
                               hWorks, oWorks)
       IN  IF AfterRegularProbe(ok) = "return"
           THEN RaceFinish(p, Returned(TRUE,
                    <<"nvidia-smi already working, no fix needed">>))
           ELSE RaceGoto(p, AfterRegularProbe(ok))
    /\ UNCHANGED <<lnk, parentExists, backups, raceFixed>>

\* lines 79-87
RaceBackupCheck(p) ==
    /\ Me(p).pc = "backup_check"
    /\ IF BackupGuard(lnk, hExists)
       THEN race' = [race EXCEPT !.procs[p].pc = "create_check_host",
                        !.procs[p].message_parts =
                            <<"Backed up old nvidia-smi to None">>]
       ELSE IF backupEscapes
       THEN RaceFinish(p, Raised("NvidiaSmiError", "Invalid backup path", ""))
       ELSE RaceGoto(p, "backup_mv")
    /\ UNCHANGED <<lnk, parentExists, backups, raceFixed>>

\* lines 89-100
RaceBackupMv(p) ==
    /\ Me(p).pc = "backup_mv"
    /\ LET out == MvOutcome(lnk)
           res == RunCommand(out, FALSE)
           cmd == MvCommand(clock)
           log == Append(Me(p).ops, Ran(cmd, out))
       IN  IF AfterCommand(res, "create_check_host") = "raise"
           THEN /\ UNCHANGED <<lnk, backups>>
                /\ race' = [race EXCEPT !.procs[p].pc = "done",
                               !.procs[p].ops = log,
                               !.procs[p].result =
                                   Wrap(res, "Failed to backup nvidia-smi")]
           ELSE /\ lnk' = Missing
                /\ backups' = backups \cup {cmd.dst}
                /\ race' = [race EXCEPT
                               !.procs[p].pc =
                                   AfterCommand(res, "create_check_host"),
                               !.procs[p].ops = log,
                               !.procs[p].moved = lnk.kind,
                               !.procs[p].message_parts =
                                   <<"Backed up old nvidia-smi to "
                                     \o cmd.dst>>]
    /\ UNCHANGED <<parentExists, raceFixed>>

\* lines 112-121
RaceCreateCheckHost(p) ==
    /\ Me(p).pc = "create_check_host"
    /\ IF ~hExists
       THEN RaceFinish(p, Raised("NvidiaSmiError",
                                 "Windows nvidia-smi not found at", ""))
       ELSE RaceGoto(p, IF ~parentExists THEN "create_mkdir"
                        ELSE "create_ln")
    /\ UNCHANGED <<lnk, parentExists, backups, raceFixed>>

\* lines 122-130
RaceMkdir(p) ==
    /\ Me(p).pc = "create_mkdir"
    /\ LET res == RunCommand(MkdirOutcome, FALSE)
       IN  /\ parentExists' = TRUE
           /\ race' = [race EXCEPT
                          !.procs[p].pc = AfterCommand(res, "create_ln"),
                          !.procs[p].ops =
                              Append(@, Ran(MkdirCommand, MkdirOutcome))]
    /\ UNCHANGED <<lnk, backups, raceFixed>>

\* lines 133-143
RaceLn(p) ==
    /\ Me(p).pc = "create_ln"
    /\ LET out == LnOutcome(parentExists)
           res == RunCommand(out, FALSE)
           log == Append(Me(p).ops, Ran(LnCommand, out))
       IN  IF AfterCommand(res, "fix_verify") = "raise"
           THEN /\ lnk' = lnk
                /\ race' = [race EXCEPT !.procs[p].pc = "done",
                               !.procs[p].ops = log,
                               !.procs[p].result =
                                   Wrap(res, "Failed to create symlink")]
           ELSE /\ lnk' = Symlink(LnCommand.src)
                /\ race' = [race EXCEPT
                               !.procs[p].pc = AfterCommand(res, "fix_verify"),
                               !.procs[p].ops = log,
                               !.procs[p].message_parts =
                                   Append(@, "Created symlink to "
                                             \o WINDOWS_NVIDIA_SMI_PATH)]
    /\ UNCHANGED <<parentExists, backups, raceFixed>>

\* lines 195-199
RaceVerify(p) ==
    /\ Me(p).pc = "fix_verify"
    /\ LET ok == TestNvidiaSmi("None", pathEnv, lnk, hExists, hWorks, oWorks)
       IN  RaceFinish(p, VerifyResult(ok, Me(p).message_parts))
    /\ UNCHANGED <<lnk, parentExists, backups, raceFixed>>

RaceNext ==
    \E p \in Procs :
        \/ RaceCheckHost(p) \/ RaceIsSymlink(p) \/ RaceProbeSymlink(p)
        \/ RaceRm(p) \/ RaceIsRegular(p) \/ RaceProbeRegular(p)
        \/ RaceBackupCheck(p) \/ RaceBackupMv(p) \/ RaceCreateCheckHost(p)
        \/ RaceMkdir(p) \/ RaceLn(p) \/ RaceVerify(p)

RaceSpec == RaceInit /\ [][RaceNext]_vars

\* ===================================================================
\* Properties

\* the messages with which fix_nvidia_smi reports that nothing had to be done
AlreadyWorkingSymlinkMsgs ==
    {<<"nvidia-smi already working (symlink to " \o t \o ")">> : t \in LinkTargets}
AlreadyWorkingMsgs ==
    AlreadyWorkingSymlinkMsgs \cup {<<"nvidia-smi already working, no fix needed">>}

AlreadyWorking(r) ==
    r.kind = "returned" /\ r.success /\ r.msg \in AlreadyWorkingMsgs

OkOps(c) == {i \in DOMAIN ops : ops[i].cmd = c /\ ops[i].outcome = "ok"}

\* C1: idempotence of repair. When an invocation returned success and nothing
\* external changed, the invocation right after it returns success with an
\* "already working" message and runs no privileged command; when the first
\* one started from a missing L, the second finds L a working symlink.
C1_Idempotent ==
    (Finished /\ prev.res.kind = "returned" /\ prev.res.success) =>
        /\ AlreadyWorking(result)
        /\ ops = <<>>
        /\ lnk = start.lnk /\ backups = start.backups
        /\ prev.lnk = Missing =>
              /\ IsNvidiaSmiSymlink(lnk)
              /\ result.msg \in AlreadyWorkingSymlinkMsgs

C1_Witness ==
    /\ Finished
    /\ prev.res.kind = "returned" /\ prev.res.success
    /\ prev.lnk = Missing
    /\ Len(prev.res.msg) = 2
    /\ AlreadyWorking(result)
    /\ ops = <<>>
    /\ lnk = Symlink(WINDOWS_NVIDIA_SMI_PATH)

\* the invocation started with H present and a regular file at L that fails
\* its liveness probe
StartedRegularFileBroken ==
    start.valid /\ start.hExists /\ start.lnk = RegularFile(FALSE)

OneBackupAndSymlink ==
    /\ Cardinality(OkOps("mv")) = 1
    /\ \A i \in OkOps("mv") : ops[i].dst \in backups
    /\ Cardinality(backups \ start.backups) <= 1
    /\ IsNvidiaSmiSymlink(lnk)

C3_BackupOnlyRegularFile ==
    /\ \A i \in DOMAIN ops : ops[i].cmd = "mv" => ops[i].before = "file"
    /\ (start.valid /\ IsNvidiaSmiSymlink(start.lnk)) =>
          /\ backups = start.backups
          /\ \A i \in DOMAIN ops : ops[i].cmd # "mv"
          /\ (probes # <<>> /\ ~probes[1].ok /\ pc # "fix_rm") =>
                /\ ops # <<>>
                /\ ops[1].cmd = "rm" /\ ops[1].before = "symlink"
                /\ ops[1].src = WSL_NVIDIA_SMI_PATH
                /\ (ops[1].outcome = "ok" /\ Len(ops) = 1) => lnk = Missing

C3_Witness ==
    /\ Finished
    /\ start.valid /\ start.lnk = Symlink("gone")
    /\ Len(ops) = 2 /\ ops[1].cmd = "rm" /\ ops[1].outcome = "ok"
    /\ lnk = Symlink(WINDOWS_NVIDIA_SMI_PATH)
    /\ backups = start.backups

\* C4 as stated: after an invocation that returns, L, if a symlink, resolves
\* to H.
C4_SymlinkResolvesToHost ==
    (Finished /\ result.kind = "returned" /\ IsNvidiaSmiSymlink(lnk)) =>
        GetNvidiaSmiTarget(lnk) = WINDOWS_NVIDIA_SMI_PATH

\* C5: every symlink creation the engine issues has target H and
\* destination L, and a successful one leaves L a symlink to H.
C5_LinkOnlyToHost ==
    \A i \in DOMAIN ops : ops[i].cmd = "ln" =>
        /\ ops[i].src = WINDOWS_NVIDIA_SMI_PATH
        /\ ops[i].dst = WSL_NVIDIA_SMI_PATH
        /\ (i = Len(ops) /\ ops[i].outcome = "ok") =>
              lnk = Symlink(WINDOWS_NVIDIA_SMI_PATH)

C5_Witness ==
    /\ pc = "fix_verify"
    /\ ops # <<>> /\ ops[Len(ops)].cmd = "ln" /\ ops[Len(ops)].outcome = "ok"
    /\ start.lnk = Symlink(OTHER_NVIDIA_SMI)
    /\ lnk = Symlink(WINDOWS_NVIDIA_SMI_PATH)

\* C6 as stated: the verdict of every liveness probe of the engine is the
\* result of executing the binary at L.
C6_ProbesExecuteL ==
    \A i \in DOMAIN probes : probes[i].ok = probes[i].lok

\* C7: with H absent fix_nvidia_smi fails at once with the host-missing
\* error: no probe, no privileged command, L and the backups unchanged.
C7_HostMissingFailsFirst ==
    (start.valid /\ ~start.hExists) =>
        /\ pc \in {"fix_check_host", "idle"}
        /\ probes = <<>> /\ ops = <<>>
        /\ lnk = start.lnk /\ backups = start.backups
        /\ parentExists = start.parentExists
        /\ pc = "idle" =>
              result = Raised("NvidiaSmiError", "Windows nvidia-smi not found", "")

C7_Witness ==
    /\ Finished
    /\ start.valid /\ ~start.hExists
    /\ start.lnk = RegularFile(FALSE)
    /\ result.kind = "raised"

\* the invocation started with H present and an L whose execution succeeds
StartedWorking ==
    /\ start.valid /\ start.hExists
    /\ start.lnk.kind \in {"symlink", "file"}
    /\ ExecL(start.lnk, start.hExists, hWorks, oWorks)

\* C8 as stated: from SymlinkWorking or RegularFileWorking fix_nvidia_smi
\* returns success with an "already working" message and changes nothing.
C8_WorkingUntouched ==
    (Finished /\ StartedWorking) =>
        /\ AlreadyWorking(result)
        /\ ops = <<>>
        /\ lnk = start.lnk
        /\ parentExists = start.parentExists
        /\ backups = start.backups

\* the message fix_nvidia_smi is to return after a successful final probe
ExpectedParts ==
    (IF OkOps("mv") # {}
     THEN <<"Backed up old nvidia-smi to " \o ops[CHOOSE i \in OkOps("mv") : TRUE].dst>>
     ELSE <<>>)
    \o <<"Created symlink to " \o WINDOWS_NVIDIA_SMI_PATH,
         "nvidia-smi is now working">>

LinkCreated ==
    ops # <<>> /\ ops[Len(ops)].cmd = "ln" /\ ops[Len(ops)].outcome = "ok"

\* C9: once the link is created the final probe decides the outcome and no
\* exception does: probe success returns success with the actions in order,
\* probe failure returns failure with the "still not working" message.
C9_FinalProbeDecides ==
    (pc = "idle" /\ LinkCreated) =>
        /\ result.kind = "returned"
        /\ probes # <<>>
        /\ LET p == probes[Len(probes)]
           IN  /\ p.at = "verify"
               /\ p.ok => result.success /\ result.msg = ExpectedParts
               /\ ~p.ok =>
                     /\ ~result.success
                     /\ result.msg =
                          <<"Symlink created but nvidia-smi still not working">>

C9_Witness ==
    /\ pc = "idle" /\ LinkCreated
    /\ result.kind = "returned" /\ result.success
    /\ Len(result.msg) = 3
    /\ result.msg = ExpectedParts

C9_WitnessFailed ==
    /\ pc = "idle" /\ LinkCreated
    /\ result.kind = "returned" /\ ~result.success

FailedOutcomes == {"nonzero", "timeout", "notfound"}

\* the diagnostic text of a failed privileged command: the helper's stderr
\* or the command runner's error text
Diagnostic(out) ==
    CASE out = "nonzero" -> {"stderr", "Command failed with exit code"}
      [] out = "timeout" -> {"Command timed out"}
      [] out = "notfound" -> {"Command not found"}
      [] OTHER -> {}

FailureText(cmd) ==
    CASE cmd = "mkdir" -> "Failed to create directory"
      [] cmd = "rm" -> "Failed to remove broken symlink"
      [] cmd = "mv" -> "Failed to backup nvidia-smi"
      [] OTHER -> "Failed to create symlink"

C11_UnsafePathErrorKind ==
    (Finished /\ StartedRegularFileBroken /\ backupEscapes) =>
        /\ \A i \in DOMAIN ops : ops[i].cmd # "mv"
        /\ result.kind = "raised"
        /\ result.exc = "UnsafePathError"
        /\ result.exc # Wrap(RunCommand("nonzero", FALSE), "").exc

\* the branch an invocation took, read off what it did
BranchTaken ==
    CASE result.text \in {"Windows nvidia-smi not found",
                          "Windows nvidia-smi not found at"} -> "host_missing"
      [] result.text = "Invalid backup path" -> "backup"
      [] ops # <<>> /\ ops[1].cmd = "rm" -> "remove"
      [] ops # <<>> /\ ops[1].cmd = "mv" -> "backup"
      [] ops # <<>> -> "create"
      [] OTHER -> "none"

\* the branch the BinaryLinkState of an L calls for, with the engine's probes
BranchFor(l, he, hw, ow, path) ==
    CASE ~he -> "host_missing"
      [] l.kind = "symlink" ->
            IF TestNvidiaSmi("None", path, l, he, hw, ow) THEN "none"
            ELSE "remove"
      [] l.kind = "file" ->
            IF TestNvidiaSmi(WSL_NVIDIA_SMI_PATH, path, l, he, hw, ow)
            THEN "none" ELSE "backup"
      [] OTHER -> "create"

\* C12: the branch of every invocation is the one the L it finds calls for,
\* whatever the invocation before it found.
C12_StateRederived ==
    (Finished /\ start.valid) =>
        BranchTaken = BranchFor(start.lnk, hExists, hWorks, oWorks, pathEnv)

C12_Witness ==
    /\ Finished /\ start.valid
    /\ prev.res.kind = "none"
    /\ prev.lnk = RegularFile(TRUE)
    /\ start.lnk = Symlink("gone")
    /\ BranchTaken = "remove"
    /\ lnk = Symlink(WINDOWS_NVIDIA_SMI_PATH)

\* C20: for valid dotted numeric strings a and b, compare_versions(a, b) is
\* minus compare_versions(b, a), and compare_versions(a, a) is 0.
C20_CompareAntisymmetric ==
    (ver.at = "done" /\ ValidVersion(ver.a) /\ ValidVersion(ver.b)) =>
        /\ ver.ab.exc = "none" /\ ver.ba.exc = "none" /\ ver.aa.exc = "none"
        /\ ver.ab.value \in {-1, 0, 1}
        /\ ver.ab.value = -ver.ba.value
        /\ ver.aa.value = 0

C20_Witness ==
    /\ ver.at = "done"
    /\ ver.a = <<"1", "0">> /\ ver.b = <<"2", ".", "1">>
    /\ ver.ab = Value(1) /\ ver.ba = Value(-1) /\ ver.aa = Value(0)

\* one of the three signals is there to be seen
SignalPresent ==
    \/ wsl.env # ""
    \/ \E i \in DOMAIN wsl.interop : wsl.interop[i] = "yes"
    \/ wsl.proc = "yes" /\ wsl.read = "ok" /\ MatchesWsl2(wsl.content)

\* C19 as stated: is_wsl2 never raises, and returns true whenever one of the
\* three signals is present, whatever filesystem errors the checks of the
\* other signals meet.
C19_AnySignalNeverRaises ==
    wsl.at = "done" =>
        /\ wsl.result.exc = "none"
        /\ SignalPresent => wsl.result = Value(TRUE)

EvReturnedNow == ev.at = "done" /\ ev.result.kind = "returned"

\* C13: when H does not exist at its check, check_driver_compatibility
\* returns not compatible with the not-found message and the three driver
\* fields None; it does not raise and runs no process.
C13_HostAbsentReturns ==
    (ev.at = "done" /\ ~ev.host) =>
        /\ ev.result.kind = "returned"
        /\ ~ev.result.is_compatible
        /\ ev.result.message = <<"Windows NVIDIA driver not found">>
        /\ ev.result.info.driver_version = None
        /\ ev.result.info.cuda_version = None
        /\ ev.result.info.gpu_name = None
        /\ ev.queries = <<>>

C13_Witness ==
    /\ EvReturnedNow /\ ~ev.host /\ ~hExists
    /\ ev.result = NotFoundResult

\* the version query ran H, H exited 0, and its output has no driver version
NoDriverVersionInOutput ==
    /\ ev.at = "done" /\ ev.host
    /\ ev.queries # <<>>
    /\ ev.queries[1].outcome = "ok"
    /\ SearchVersion(DriverLabel, ev.queries[1].stdout) = None

\* C14: when H exists and exits 0 but prints no driver version, the evaluator
\* raises DriverError("Could not determine driver version"); it returns no
\* result, so the outcome differs from the not-found result.
C14_UndeterminedRaises ==
    NoDriverVersionInOutput =>
        /\ ev.result.kind = "raised"
        /\ ev.result.exc = "DriverError"
        /\ ev.result.text = "Could not determine driver version"
        /\ ev.result # NotFoundResult

C14_Witness ==
    /\ NoDriverVersionInOutput
    /\ ev.queries[1].stdout = <<>>
    /\ ev.result.kind = "raised"

\* str occurs in message as a run of consecutive elements
Cites(message, str) ==
    \E i \in 1..(Len(message) - Len(str) + 1) :
        SubSeq(message, i, i + Len(str) - 1) = str

\* C15: a result returned for an obtained driver version d is not compatible
\* with a too-old message citing the minimum when d is below the minimum,
\* compatible with a recommended-upgrade message when d meets the minimum but
\* not the recommended version, compatible with an up-to-date message when d
\* meets the recommended version; so is_compatible is meetsMinimum(d, minimum).
C15_Classification ==
    (EvReturnedNow /\ ev.host) =>
        LET d == ev.driver_ver
            min == VersionMeetsMinimum(d, MIN_WINDOWS_DRIVER)
            rec == VersionMeetsMinimum(d, RECOMMENDED_DRIVER)
            r == ev.result
        IN  /\ d # None
            /\ min.exc = "none" /\ rec.exc = "none"
            /\ r.is_compatible = min.value
            /\ ~min.value =>
                  /\ Cites(r.message, <<" is too old. ">>)
                  /\ Cites(r.message, <<"Minimum ">> \o MIN_WINDOWS_DRIVER)
            /\ (min.value /\ ~rec.value) =>
                  Cites(r.message, RECOMMENDED_DRIVER \o <<"+ recommended">>)
            /\ rec.value => Cites(r.message, <<" is up-to-date and supports CUDA ">>)
            /\ Cites(r.message, <<"Driver ">> \o d)

C15_Witness ==
    /\ EvReturnedNow /\ ev.host
    /\ ev.driver_ver = MIN_WINDOWS_DRIVER
    /\ ev.result.is_compatible
    /\ ev.result.message = RecommendedMessage(MIN_WINDOWS_DRIVER)

ResultFields ==
    {"driver_version", "cuda_version", "gpu_name", "min_required",
     "recommended", "target_cuda"}

\* C16 as stated: every returned result, the host-absent one included,
\* carries the same fields: the three driver fields, min_required,
\* recommended and the target version.
C16_SameFieldsOnEveryPath ==
    EvReturnedNow => DOMAIN ev.result.info = ResultFields

Exited == run.at = "exited"

\* the check command met an incompatibility or an error
CheckFailed ==
    \/ GateFails(run.is_wsl2)
    \/ result.kind = "raised"
    \/ ev.at = "done" /\ ev.result.kind = "raised"
    \/ ev.at = "done" /\ ev.result.kind = "returned"
           /\ ~ev.result.is_compatible

\* C17 as stated: the check command exits with status 1 whenever the
\* evaluator reports not compatible or an error is raised, in JSON mode as in
\* text mode, and with 0 only on success.
C17_CheckExitStatus ==
    (Exited /\ run.command = "check") =>
        (run.status = ExitFailure <=> CheckFailed)

\* nothing was run and nothing was changed
NothingDone ==
    /\ ops = <<>> /\ probes = <<>> /\ result = NoResult /\ ~start.valid
    /\ ev = Off /\ run.queries = <<>>
    /\ lnk = run.fs0.lnk /\ parentExists = run.fs0.parentExists
    /\ backups = {}

\* C18: in check, fix and info alike, when is_wsl2() is false the command
\* exits with status 1 and no repair step, driver query, probe, other process
\* or filesystem change has taken place.
C18_GateFirst ==
    (Exited /\ run.is_wsl2 = Value(FALSE)) =>
        /\ run.status = ExitFailure
        /\ NothingDone

C18_Witness ==
    /\ Exited /\ run.is_wsl2 = Value(FALSE)
    /\ run.command = "fix"
    /\ lnk = RegularFile(FALSE) /\ hExists /\ hWorks
    /\ run.status = ExitFailure

\* the numbers of the dot-delimited segments, as written
Segments(str) ==
    LET segs == SplitDots(str, <<>>)
    IN  [i \in DOMAIN segs |-> SegmentValue(segs[i], 0)]

\* segment i of a string taken to have implicit trailing zero segments
SegmentAt(str, i) ==
    IF i <= Len(Segments(str)) THEN Segments(str)[i] ELSE 0

\* the order the claim describes: the first segment that differs decides,
\* numerically
SegmentOrder(a, b) ==
    LET n == IF Len(Segments(a)) > Len(Segments(b))
             THEN Len(Segments(a)) ELSE Len(Segments(b))
        diff == {i \in 1..n : SegmentAt(a, i) # SegmentAt(b, i)}
    IN  IF diff = {} THEN 0
        ELSE LET i == CHOOSE d \in diff : \A e \in diff : d <= e
             IN  IF SegmentAt(a, i) < SegmentAt(b, i) THEN -1 ELSE 1

\* C21: on dotted numeric strings compare_versions is the segment-wise
\* numeric order with implicit trailing zeros, and version_meets_minimum is
\* compare >= 0, the boundary included: 566.03 and 528.33 meet 528.33, 500.00
\* does not.
C21_NumericSegmentOrder ==
    /\ (ver.at = "done" /\ DottedNumeric(ver.a) /\ DottedNumeric(ver.b)) =>
          /\ ver.ab = Value(SegmentOrder(ver.a, ver.b))
          /\ ver.meets = Value(ver.ab.value >= 0)
          /\ ver.a = ver.b => ver.meets = Value(TRUE)
    /\ (ver.at = "done" /\ ver.b = MIN_WINDOWS_DRIVER) =>
          /\ ver.a = RECOMMENDED_DRIVER => ver.meets = Value(TRUE)
          /\ ver.a = MIN_WINDOWS_DRIVER => ver.meets = Value(TRUE)
          /\ ver.a = <<"5", "0", "0", ".", "0", "0">> =>
                 ver.meets = Value(FALSE)

C21_Witness ==
    /\ ver.at = "done"
    /\ ver.a = <<"1", "0">> /\ ver.b = <<"2", ".", "0">>
    /\ ver.ab = Value(1) /\ ver.meets = Value(TRUE)
    /\ ver.ba = Value(-1)

\* a segment that is empty or not a number
Malformed(str) == ~DottedNumeric(str)

\* C22 as stated: a version string with an empty or non-numeric segment
\* makes compare_versions and version_meets_minimum fail with the parse
\* error; it is never accepted and compared.
C22_MalformedRejected ==
    (ver.at = "done" /\ (Malformed(ver.a) \/ Malformed(ver.b))) =>
        /\ ver.ab = Exception("InvalidVersion")
        /\ ver.meets = Exception("InvalidVersion")

SpawnFailures == {"notfound", "timeout", "oserror"}

\* C23 as stated: for a command that cannot be located, that exceeds the
\* timeout, or that the OS refuses to spawn, run_command raises
\* SubprocessError and nothing else; a non-zero exit code raises only with
\* check=True.
C23_SpawnFailuresWrapped ==
    \A i \in DOMAIN ops : \A check \in BOOLEAN :
        LET r == RunCommand(ops[i].outcome, check)
        IN  /\ ops[i].outcome \in SpawnFailures => r.exc = "SubprocessError"
            /\ ops[i].outcome = "nonzero" =>
                   (r.exc = "SubprocessError" <=> check)
            /\ ops[i].outcome = "nonzero" /\ ~check =>
                   r.exc = "none" /\ r.returncode # 0

\* the commands issued before the i-th
Earlier(i, cmd) == \E j \in 1..(i - 1) : ops[j].cmd = cmd

\* C24: in one invocation the symlink is created only after every earlier
\* command succeeded: the backup move when L was a broken regular file, the
\* removal when L was a broken symlink, the mkdir when the parent was absent;
\* nothing is at L when ln is issued; and the final probe runs only after ln
\* succeeded.
C24_StepsOrdered ==
    /\ \A i \in DOMAIN ops : ops[i].cmd = "ln" =>
          /\ start.valid
          /\ \A j \in 1..(i - 1) : ops[j].outcome = "ok"
          /\ start.lnk.kind = "file" => Earlier(i, "mv")
          /\ start.lnk.kind = "symlink" => Earlier(i, "rm")
          /\ ~start.parentExists => Earlier(i, "mkdir")
          /\ ops[i].before = "missing"
          /\ i = Len(ops)
    /\ \A k \in DOMAIN probes : probes[k].at = "verify" =>
          /\ ops # <<>>
          /\ ops[Len(ops)].cmd = "ln"
          /\ ops[Len(ops)].outcome = "ok"
          /\ k = Len(probes)

C24_Witness ==
    /\ Finished /\ start.lnk = RegularFile(FALSE)
    /\ Len(ops) = 2
    /\ ops[1].cmd = "mv" /\ ops[1].outcome = "ok"
    /\ ops[2].cmd = "ln" /\ ops[2].outcome = "ok" /\ ops[2].before = "missing"
    /\ probes # <<>> /\ probes[Len(probes)].at = "verify"

\* how often cmd was executed in the invocation
TimesRun(cmd) == Cardinality({i \in DOMAIN ops : ops[i].cmd = cmd})

AtMostOnce ==
    /\ \A cmd \in {"mkdir", "rm", "mv", "ln"} : TimesRun(cmd) <= 1
    /\ \A i \in DOMAIN ops : ops[i].cmd \in {"mkdir", "rm", "mv", "ln"}
    /\ Len(probes) <= 2

\* C26: an invocation executes each of mkdir, rm, mv and ln at most once and
\* the probe at most twice, and it ends: it returns or raises.
C26_BoundedAndTerminates ==
    /\ []AtMostOnce
    /\ (pc # "idle") ~> Finished

C26_Witness ==
    /\ Finished /\ start.lnk = Symlink("gone")
    /\ TimesRun("rm") = 1 /\ TimesRun("ln") = 1
    /\ Len(probes) = 2

CreateFailedTexts == {"Failed to create directory", "Failed to create symlink"}

\* C28: no rollback. An invocation on a broken regular file whose move
\* succeeded and whose directory or symlink creation failed raises with
\* nothing at L and the binary at the backup path only; the invocation that
\* follows starts from a missing L and makes no second backup.
C28_NoRollback ==
    /\ (Finished /\ StartedRegularFileBroken /\ Len(ops) >= 2
            /\ ops[1].cmd = "mv" /\ ops[1].outcome = "ok"
            /\ ops[Len(ops)].outcome # "ok") =>
          /\ result.kind = "raised"
          /\ lnk = Missing
          /\ backups = start.backups \cup {ops[1].dst}
          /\ ops[1].src = WSL_NVIDIA_SMI_PATH
    /\ (start.valid /\ prev.lnk = RegularFile(FALSE)
            /\ prev.res.kind = "raised"
            /\ prev.res.text \in CreateFailedTexts) =>
          /\ start.lnk = Missing
          /\ \A i \in DOMAIN ops : ops[i].cmd # "mv"
          /\ backups = start.backups

C28_Witness ==
    /\ Finished /\ result.kind = "returned"
    /\ prev.lnk = RegularFile(FALSE)
    /\ prev.res.text = "Failed to create symlink"
    /\ start.lnk = Missing /\ Cardinality(start.backups) = 1
    /\ lnk = Symlink(WINDOWS_NVIDIA_SMI_PATH)
    /\ backups = start.backups

CheckWithRepair == run.command = "check" /\ ~run.no_fix /\ run.at # "gate"

\* C25: in check with repair enabled no driver query is issued before the
\* repair has returned, and a repair that raises ends the command with
\* status 1 with no driver query and no evaluation.
C25_RepairBeforeQueries ==
    CheckWithRepair =>
        /\ ev # Off => Finished /\ result.kind = "returned"
        /\ (Exited /\ result.kind = "raised") =>
              run.status = ExitFailure /\ ev = Off /\ run.queries = <<>>

C25_Witness ==
    /\ CheckWithRepair /\ Exited
    /\ result.kind = "raised" /\ result.exc = "NvidiaSmiError"
    /\ ops # <<>>
    /\ run.status = ExitFailure /\ ev = Off

\* C29: in check, a repair that returns success=False without raising does
\* not end the command: the evaluator runs, and the exit status is the one
\* the evaluator's outcome gives.
C29_PartialRepairNotFatal ==
    (CheckWithRepair /\ Exited /\ GateFails(run.is_wsl2) = FALSE
         /\ result.kind = "returned" /\ ~result.success) =>
        /\ ev.at = "done"
        /\ run.status = CheckStatus(ev.result, run.json_output)

C29_Witness ==
    /\ CheckWithRepair /\ Exited
    /\ result.kind = "returned" /\ ~result.success
    /\ ev.at = "done" /\ ev.result.kind = "returned"
    /\ ev.result.is_compatible
    /\ run.status = ExitSuccess /\ ~run.json_output

\* C30: in check without --no-fix the evaluator's not-found result does not
\* occur: with H absent the repair raises and the command ends before the
\* evaluator; the result occurs only with --no-fix.
C30_NotFoundOnlyWithNoFix ==
    /\ (run.command = "check" /\ ev.at = "done" /\ ~ev.host) => run.no_fix
    /\ (CheckWithRepair /\ Exited /\ ~GateFails(run.is_wsl2) /\ ~hExists) =>
          /\ result.kind = "raised"
          /\ result.text = "Windows nvidia-smi not found"
          /\ ev = Off
          /\ run.status = ExitFailure

C30_Witness ==
    /\ CheckWithRepair /\ Exited /\ ~hExists
    /\ result.text = "Windows nvidia-smi not found"
    /\ ev = Off /\ run.status = ExitFailure

\* both invocations start on a broken regular file with H present
RaceOnBrokenFile == race.lnk0 = RegularFile(FALSE) /\ hExists

\* the other invocation has not taken a step
Alone(p) == race.procs[Other(p)] = ProcStart

\* C27: run alone, an invocation on a broken regular file with H present
\* backs the file up, links L to H and returns; with a second invocation
\* interleaved, one of them can raise the repair error or move away the
\* symlink the other has just created. An invocation raises or moves a
\* symlink only when the other has run a command.
C27_RaceNeedsInterleaving ==
    RaceOnBrokenFile =>
        \A p \in Procs :
            /\ (Me(p).pc = "done" /\ Alone(p)) =>
                  /\ Me(p).result.kind = "returned"
                  /\ Me(p).moved = "file"
                  /\ lnk = Symlink(WINDOWS_NVIDIA_SMI_PATH)
            /\ (Me(p).result.kind = "raised" \/ Me(p).moved = "symlink") =>
                  race.procs[Other(p)].ops # <<>>

C27_Witness ==
    /\ RaceOnBrokenFile
    /\ \A p \in Procs : Me(p).pc = "done"
    /\ Me(1).result.kind = "returned" /\ Me(1).moved = "file"
    /\ Me(2).result.kind = "raised"
    /\ Me(2).result.exc = "NvidiaSmiError"
    /\ Me(2).result.text = "Failed to backup nvidia-smi"

C27_WitnessSymlinkMoved ==
    /\ RaceOnBrokenFile
    /\ \A p \in Procs : Me(p).pc = "done"
    /\ Me(1).moved = "file" /\ Me(2).moved = "symlink"
    /\ Me(1).result.kind = "returned" /\ Me(2).result.kind = "returned"

====
